---- MODULE Spec2Model ----
(***************************************************************************)
(* A model of shunting_yard.c: the scanner (scanner_execute and its        *)
(* helpers) that turns one source line into tokens, and the evaluator      *)
(* (eval_by_shunting_yard, evaluate and the two global stacks) that folds  *)
(* the tokens into one double.                                             *)
(*                                                                         *)
(* Characters are one-character strings; NUL, NL and TAB stand for '\0',   *)
(* '\n' and '\t'.  The C string `source` is the sequence source followed   *)
(* by its terminating NUL.  A double is modelled as a signed extended      *)
(* rational (sign, numerator, denominator): denominator 0 gives the        *)
(* infinities (numerator 1) and NaN (numerator 0), and zero keeps its      *)
(* sign, as in IEEE 754.  Rounding is not modelled: the arithmetic is      *)
(* exact.                                                                  *)
(***************************************************************************)
EXTENDS Integers, Sequences, FiniteSets, TLC

VARIABLES
    source,         \* the text of the file: Scanner.source without its NUL
    scanner,        \* Scanner.start and Scanner.current
    tokens,         \* Scanner.tokens, then the argument of eval_by_shunting_yard
    pc,             \* where the program is
    current,        \* eval_by_shunting_yard: int current
    token,          \* eval_by_shunting_yard: Token token
    shy_operators,  \* shy_operators[0 .. shy_operators_count-1]
    shy_values,     \* shy_values[0 .. shy_values_count-1]
    result,         \* <<>> until eval_by_shunting_yard returns, then <<value>>
    err             \* what the program wrote to stderr before exit(), if it did

vars == <<source, scanner, tokens, pc, current, token,
          shy_operators, shy_values, result, err>>

-----------------------------------------------------------------------------
(* Program constants *)

STACK_SIZE_SHY_OPERATORS == 1024
STACK_SIZE_SHY_VALUES == 1024

ERROR_PARSING == 4
ERROR_EVALUATION == 5

TOKEN_UMINUS == "TOKEN_UMINUS"
TOKEN_STAR == "TOKEN_STAR"
TOKEN_SLASH == "TOKEN_SLASH"
TOKEN_PLUS == "TOKEN_PLUS"
TOKEN_MINUS == "TOKEN_MINUS"
TOKEN_NUMBER == "TOKEN_NUMBER"
TOKEN_LEFT_PAREN == "TOKEN_LEFT_PAREN"
TOKEN_RIGHT_PAREN == "TOKEN_RIGHT_PAREN"

TokenType ==
    {TOKEN_UMINUS, TOKEN_STAR, TOKEN_SLASH, TOKEN_PLUS, TOKEN_MINUS,
     TOKEN_NUMBER, TOKEN_LEFT_PAREN, TOKEN_RIGHT_PAREN}

TOKEN_TYPE_PRECEDENCE ==
    [t \in TokenType |->
        CASE t = TOKEN_UMINUS -> 4
          [] t \in {TOKEN_STAR, TOKEN_SLASH} -> 3
          [] t \in {TOKEN_PLUS, TOKEN_MINUS} -> 2
          [] OTHER -> 0]

NUL == "NUL"
NL == "NL"
TAB == "TAB"

DigitChars == <<"0", "1", "2", "3", "4", "5", "6", "7", "8", "9">>

IS_DIGIT(value) == \E i \in 1..10 : DigitChars[i] = value

DigitValue(c) == (CHOOSE i \in 1..10 : DigitChars[i] = c) - 1

-----------------------------------------------------------------------------
(* Doubles *)

RECURSIVE GCD(_, _)
GCD(a, b) == IF b = 0 THEN a ELSE GCD(b, a % b)

NaN == [sg |-> 1, n |-> 0, d |-> 0]

IsNaN(a) == a.n = 0 /\ a.d = 0

IsInf(a) == a.n # 0 /\ a.d = 0

\* The double of sign sg and magnitude n/d, in lowest terms.
Double(sg, n, d) ==
    IF d = 0 THEN (IF n = 0 THEN NaN ELSE [sg |-> sg, n |-> 1, d |-> 0])
    ELSE IF n = 0 THEN [sg |-> sg, n |-> 0, d |-> 1]
    ELSE LET g == GCD(n, d) IN [sg |-> sg, n |-> n \div g, d |-> d \div g]

DoubleOfInt(k) == Double(1, k, 1)

\* -a
DNeg(a) == IF IsNaN(a) THEN NaN ELSE [a EXCEPT !.sg = -a.sg]

\* a + b
DAdd(a, b) ==
    IF IsNaN(a) \/ IsNaN(b) THEN NaN
    ELSE IF IsInf(a) /\ IsInf(b) THEN (IF a.sg = b.sg THEN a ELSE NaN)
    ELSE IF IsInf(a) THEN a
    ELSE IF IsInf(b) THEN b
    ELSE LET s == a.sg * a.n * b.d + b.sg * b.n * a.d
             den == a.d * b.d
         IN  IF s > 0 THEN Double(1, s, den)
             ELSE IF s < 0 THEN Double(-1, -s, den)
             ELSE IF a.sg = -1 /\ b.sg = -1 THEN Double(-1, 0, 1)
             ELSE Double(1, 0, 1)

\* a - b
DSub(a, b) == DAdd(a, DNeg(b))

\* a * b
DMul(a, b) ==
    IF IsNaN(a) \/ IsNaN(b) THEN NaN
    ELSE Double(a.sg * b.sg, a.n * b.n, a.d * b.d)

\* a / b
DDiv(a, b) ==
    IF IsNaN(a) \/ IsNaN(b) THEN NaN
    ELSE Double(a.sg * b.sg, a.n * b.d, a.d * b.n)

-----------------------------------------------------------------------------
(* atof on the strings scanner_number hands it: a C string that starts     *)
(* with a digit.  atof converts the longest prefix of the form             *)
(* digits [ '.' digits ] and ignores the rest.                             *)

RECURSIVE DigitRun(_, _)
\* The number of digits of s from index i on, up to the first non-digit.
DigitRun(s, i) ==
    IF i <= Len(s) /\ IS_DIGIT(s[i]) THEN 1 + DigitRun(s, i + 1) ELSE 0

RECURSIVE DecimalOf(_)
\* The natural number a sequence of digits writes.
DecimalOf(s) ==
    IF s = <<>> THEN 0
    ELSE 10 * DecimalOf(SubSeq(s, 1, Len(s) - 1)) + DigitValue(s[Len(s)])

RECURSIVE Pow10(_)
Pow10(k) == IF k = 0 THEN 1 ELSE 10 * Pow10(k - 1)

atof(s) ==
    LET k == DigitRun(s, 1)
        whole == DecimalOf(SubSeq(s, 1, k))
    IN  IF k + 1 <= Len(s) /\ s[k + 1] = "."
        THEN LET m == DigitRun(s, k + 2)
                 frac == DecimalOf(SubSeq(s, k + 2, k + 1 + m))
             IN  Double(1, whole * Pow10(m) + frac, Pow10(m))
        ELSE DoubleOfInt(whole)

\* The C string held in a char array: the characters before the first NUL.
RECURSIVE CString(_)
CString(a) ==
    IF a = <<>> \/ Head(a) = NUL THEN <<>> ELSE <<Head(a)>> \o CString(Tail(a))

-----------------------------------------------------------------------------
(* The scanner *)

\* source[i], i counted from 0; the string ends with its NUL.
SourceAt(i) == IF i < Len(source) THEN source[i + 1] ELSE NUL

scanner_is_at_end(cur) == SourceAt(cur) = NUL \/ SourceAt(cur) = NL

scanner_peek(cur) == SourceAt(cur)

scanner_peek_next(cur) ==
    IF scanner_peek(cur) = NUL THEN NUL ELSE SourceAt(cur + 1)

\* A Token whose literal was never assigned.
Unset == [sg |-> 0, n |-> 0, d |-> 0]

scanner_add_token_EndAtCurrent(type, start, cur) ==
    [type |-> type, literal |-> Unset, start_at |-> start, end_at |-> cur]

\* The token scanner_add_token appends, with scanner->start = start and
\* scanner->current = cur.
scanner_add_token(type, start, cur) ==
    [type |-> type, literal |-> Unset, start_at |-> start, end_at |-> cur - 1]

RECURSIVE AdvanceDigits(_)
\* while (IS_DIGIT(scanner_peek(scanner))) scanner_advance(scanner);
AdvanceDigits(cur) ==
    IF IS_DIGIT(scanner_peek(cur)) THEN AdvanceDigits(cur + 1) ELSE cur

\* scanner->current when scanner_number has consumed the literal.
NumberEnd(cur) ==
    LET c1 == AdvanceDigits(cur)
    IN  IF scanner_peek(c1) = "." /\ IS_DIGIT(scanner_peek_next(c1))
        THEN AdvanceDigits(c1 + 1)
        ELSE c1

\* The token scanner_number leaves in the list: the span of the consumed
\* text, and as literal atof of liter_as_str, which is the `length - 1`
\* characters from start_at on, where end_at = start_at + 1 and
\* length = end_at - start_at + 2.
scanner_number(start, cur) ==
    LET tok == scanner_add_token(TOKEN_NUMBER, start, NumberEnd(cur))
        start_at == tok.start_at
        end_at == tok.start_at + 1
        length == end_at - start_at + 2
        liter_as_str ==
            CString([i \in 1..(length - 1) |-> SourceAt(start_at + i - 1)])
    IN  [tok EXCEPT !.literal = atof(liter_as_str)]

IsUnaryPosition_NumberOnly(toks) ==
    \/ Len(toks) = 0
    \/ toks[Len(toks)].type # TOKEN_NUMBER

\* case '-': the test that chooses TOKEN_UMINUS.
IsUnaryPosition(toks) ==
    \/ Len(toks) = 0
    \/ /\ toks[Len(toks)].type # TOKEN_NUMBER
       /\ toks[Len(toks)].type # TOKEN_RIGHT_PAREN

IsSkipped_AnyBlank(c) == c = " " \/ c = TAB

\* case ' ': break;
IsSkipped(c) == c = " "

NoError == [code |-> 0, msg |-> "", char |-> "", pos |-> -1, end |-> -1]

NoToken == [type |-> "", literal |-> Unset, start_at |-> -1, end_at |-> -1]

Error(code, msg, char, pos, end) ==
    [code |-> code, msg |-> msg, char |-> char, pos |-> pos, end |-> end]

\* One iteration of the loop of scanner_execute: scanner_scan_token.
ScanToken ==
    /\ pc = "scan"
    /\ ~scanner_is_at_end(scanner.current)
    /\ LET start == scanner.current
           c == SourceAt(scanner.current)
           cur == scanner.current + 1
       IN  IF c = "+" \/ c = "*" \/ c = "/" \/ c = "(" \/ c = ")"
           THEN /\ tokens' = Append(tokens, scanner_add_token(
                        CASE c = "+" -> TOKEN_PLUS
                          [] c = "*" -> TOKEN_STAR
                          [] c = "/" -> TOKEN_SLASH
                          [] c = "(" -> TOKEN_LEFT_PAREN
                          [] c = ")" -> TOKEN_RIGHT_PAREN,
                        start, cur))
                /\ scanner' = [start |-> start, current |-> cur]
                /\ UNCHANGED <<pc, err>>
           ELSE IF c = "-"
           THEN /\ tokens' = Append(tokens, scanner_add_token(
                        IF IsUnaryPosition(tokens) THEN TOKEN_UMINUS
                        ELSE TOKEN_MINUS,
                        start, cur))
                /\ scanner' = [start |-> start, current |-> cur]
                /\ UNCHANGED <<pc, err>>
           ELSE IF IsSkipped(c)
           THEN /\ scanner' = [start |-> start, current |-> cur]
                /\ UNCHANGED <<tokens, pc, err>>
           ELSE IF IS_DIGIT(c)
           THEN /\ tokens' = Append(tokens, scanner_number(start, cur))
                /\ scanner' = [start |-> start, current |-> NumberEnd(cur)]
                /\ UNCHANGED <<pc, err>>
           ELSE /\ scanner' = [start |-> start, current |-> cur]
                /\ pc' = "exit"
                /\ err' = Error(ERROR_PARSING, "Unexpected character",
                                c, cur - 1, cur - 1)
                /\ UNCHANGED tokens
    /\ UNCHANGED <<source, current, token, shy_operators, shy_values, result>>

\* scanner_execute returns and process_file calls eval_by_shunting_yard.
ScanReturn ==
    /\ pc = "scan"
    /\ scanner_is_at_end(scanner.current)
    /\ pc' = "eval"
    /\ UNCHANGED <<source, scanner, tokens, current, token,
                   shy_operators, shy_values, result, err>>

-----------------------------------------------------------------------------
(* The two global stacks.  Each operation yields the stack it leaves and   *)
(* the error it exits with (NoError when it returns).                      *)

shy_operators_count == Len(shy_operators)

shy_values_count == Len(shy_values)

push_operator_OffByOne(ops, t) ==
    IF Len(ops) > STACK_SIZE_SHY_OPERATORS
    THEN [ops |-> ops,
          err |-> Error(ERROR_EVALUATION, "Operators stack is overflowed.",
                        "", -1, -1)]
    ELSE [ops |-> Append(ops, t), err |-> NoError]

push_operator(ops, t) ==
    IF Len(ops) >= STACK_SIZE_SHY_OPERATORS
    THEN [ops |-> ops,
          err |-> Error(ERROR_EVALUATION, "Operators stack is overflowed.",
                        "", -1, -1)]
    ELSE [ops |-> Append(ops, t), err |-> NoError]

peek_operator(ops) ==
    IF Len(ops) <= 0
    THEN [token |-> NoToken,
          err |-> Error(ERROR_EVALUATION, "Operators stack is empty.",
                        "", -1, -1)]
    ELSE [token |-> ops[Len(ops)], err |-> NoError]

pop_operator(ops) ==
    LET p == peek_operator(ops)
    IN  IF p.err # NoError
        THEN [ops |-> ops, token |-> p.token, err |-> p.err]
        ELSE [ops |-> SubSeq(ops, 1, Len(ops) - 1), token |-> p.token,
              err |-> NoError]

push_value(vals, value) ==
    IF Len(vals) >= STACK_SIZE_SHY_VALUES
    THEN [vals |-> vals,
          err |-> Error(ERROR_EVALUATION, "Values stack is overflowed.",
                        "", -1, -1)]
    ELSE [vals |-> Append(vals, value), err |-> NoError]

pop_value(vals) ==
    IF Len(vals) <= 0
    THEN [vals |-> vals, value |-> Unset,
          err |-> Error(ERROR_EVALUATION, "Values stack is empty.",
                        "", -1, -1)]
    ELSE [vals |-> SubSeq(vals, 1, Len(vals) - 1), value |-> vals[Len(vals)],
          err |-> NoError]

BinaryOperators == {TOKEN_PLUS, TOKEN_MINUS, TOKEN_STAR, TOKEN_SLASH}

\* left OP right
Apply(type, left, right) ==
    CASE type = TOKEN_PLUS -> DAdd(left, right)
      [] type = TOKEN_MINUS -> DSub(left, right)
      [] type = TOKEN_STAR -> DMul(left, right)
      [] type = TOKEN_SLASH -> DDiv(left, right)

\* evaluate(operator) on the value stack vals: the stack it leaves, the
\* value it returns, the error it exits with.
evaluate(operator, vals) ==
    LET p1 == pop_value(vals)
        operand == p1.value
    IN  IF p1.err # NoError
        THEN [vals |-> p1.vals, value |-> Unset, err |-> p1.err]
        ELSE IF operator.type \in BinaryOperators
        THEN LET p2 == pop_value(p1.vals)
             IN  IF p2.err # NoError
                 THEN [vals |-> p2.vals, value |-> Unset, err |-> p2.err]
                 ELSE [vals |-> p2.vals,
                       value |-> Apply(operator.type, p2.value, operand),
                       err |-> NoError]
        ELSE IF operator.type = TOKEN_UMINUS
        THEN [vals |-> p1.vals, value |-> DNeg(operand), err |-> NoError]
        ELSE [vals |-> p1.vals, value |-> Unset,
              err |-> Error(ERROR_EVALUATION,
                            "Invalid token type when an operator expected.",
                            "", operator.start_at, operator.end_at)]

\* push_value(evaluate(operator)), the operator already popped.
PushEvaluated(operator, vals) ==
    LET e == evaluate(operator, vals)
    IN  IF e.err # NoError THEN [vals |-> e.vals, err |-> e.err]
        ELSE push_value(e.vals, e.value)

\* push_value(evaluate(pop_operator()))
Reduce(ops, vals) ==
    LET p == pop_operator(ops)
    IN  IF p.err # NoError THEN [ops |-> p.ops, vals |-> vals, err |-> p.err]
        ELSE LET r == PushEvaluated(p.token, vals)
             IN  [ops |-> p.ops, vals |-> r.vals, err |-> r.err]

-----------------------------------------------------------------------------
(* eval_by_shunting_yard *)

\* pc and err after a call that exits with error e or returns (NoError).
Goes(e, next) ==
    IF e # NoError THEN pc' = "exit" /\ err' = e
    ELSE pc' = next /\ err' = err

WhileOperator_Strict(ops, tk) ==
    /\ Len(ops) > 0
    /\ peek_operator(ops).token.type # TOKEN_LEFT_PAREN
    /\ TOKEN_TYPE_PRECEDENCE[peek_operator(ops).token.type]
            > TOKEN_TYPE_PRECEDENCE[tk.type]

\* The condition of the loop that reduces before an operator is pushed.
WhileOperator(ops, tk) ==
    /\ Len(ops) > 0
    /\ peek_operator(ops).token.type # TOKEN_LEFT_PAREN
    /\ TOKEN_TYPE_PRECEDENCE[peek_operator(ops).token.type]
            >= TOKEN_TYPE_PRECEDENCE[tk.type]

\* The condition of the loop that reduces at a right paren.
WhileRightParen(ops) ==
    /\ Len(ops) > 0
    /\ peek_operator(ops).token.type # TOKEN_LEFT_PAREN

\* The two tests on token.type that end an iteration of the main loop,
\* with operator stack ops.
ParenTests(tk, ops) ==
    IF tk.type = TOKEN_LEFT_PAREN
    THEN LET r == push_operator(ops, tk)
         IN  shy_operators' = r.ops /\ Goes(r.err, "eval")
    ELSE IF tk.type = TOKEN_RIGHT_PAREN
    THEN shy_operators' = ops /\ pc' = "right_paren" /\ err' = err
    ELSE shy_operators' = ops /\ pc' = "eval" /\ err' = err

\* The main loop takes the next token: a number is pushed, an operator
\* enters the loop that reduces before it, a paren goes to its test.
EvalToken ==
    /\ pc = "eval"
    /\ current < Len(tokens)
    /\ LET tk == tokens[current + 1]
       IN  /\ token' = tk
           /\ current' = current + 1
           /\ IF tk.type = TOKEN_NUMBER
              THEN LET r == push_value(shy_values, tk.literal)
                   IN  /\ shy_values' = r.vals
                       /\ Goes(r.err, "eval")
                       /\ UNCHANGED shy_operators
              ELSE IF TOKEN_TYPE_PRECEDENCE[tk.type] > 0
              THEN /\ pc' = "operator"
                   /\ UNCHANGED <<shy_operators, shy_values, err>>
              ELSE /\ ParenTests(tk, shy_operators)
                   /\ UNCHANGED shy_values
    /\ UNCHANGED <<source, scanner, tokens, result>>

\* One iteration of the loop before an operator is pushed.
OperatorReduce ==
    /\ pc = "operator"
    /\ WhileOperator(shy_operators, token)
    /\ LET r == Reduce(shy_operators, shy_values)
       IN  /\ shy_operators' = r.ops
           /\ shy_values' = r.vals
           /\ Goes(r.err, "operator")
    /\ UNCHANGED <<source, scanner, tokens, current, token, result>>

\* The loop ends: push_operator(token), then the two paren tests.
OperatorPush ==
    /\ pc = "operator"
    /\ ~WhileOperator(shy_operators, token)
    /\ LET r == push_operator(shy_operators, token)
       IN  IF r.err # NoError
           THEN shy_operators' = r.ops /\ Goes(r.err, "eval")
           ELSE ParenTests(token, r.ops)
    /\ UNCHANGED <<source, scanner, tokens, current, token, shy_values,
                   result>>

\* One iteration of the loop at a right paren.
RightParenReduce ==
    /\ pc = "right_paren"
    /\ WhileRightParen(shy_operators)
    /\ LET r == Reduce(shy_operators, shy_values)
       IN  /\ shy_operators' = r.ops
           /\ shy_values' = r.vals
           /\ Goes(r.err, "right_paren")
    /\ UNCHANGED <<source, scanner, tokens, current, token, result>>

RightParenClose_NoCheck ==
    /\ pc = "right_paren"
    /\ ~WhileRightParen(shy_operators)
    /\ LET r == pop_operator(shy_operators)
       IN  shy_operators' = r.ops /\ Goes(r.err, "eval")
    /\ UNCHANGED <<source, scanner, tokens, current, token, shy_values,
                   result>>

\* The loop ends: an empty stack is a mismatched right paren, otherwise
\* the left paren on top is popped.
RightParenClose ==
    /\ pc = "right_paren"
    /\ ~WhileRightParen(shy_operators)
    /\ IF shy_operators_count = 0
       THEN /\ Goes(Error(ERROR_EVALUATION, "Mismatched right paren", "",
                          token.start_at, token.start_at), "eval")
            /\ UNCHANGED shy_operators
       ELSE LET r == pop_operator(shy_operators)
            IN  shy_operators' = r.ops /\ Goes(r.err, "eval")
    /\ UNCHANGED <<source, scanner, tokens, current, token, shy_values,
                   result>>

Drain_NoParenTest ==
    /\ pc = "eval"
    /\ current >= Len(tokens)
    /\ shy_operators_count > 0
    /\ LET r == Reduce(shy_operators, shy_values)
       IN  /\ shy_operators' = r.ops
           /\ shy_values' = r.vals
           /\ Goes(r.err, "eval")
    /\ UNCHANGED <<source, scanner, tokens, current, token, result>>

\* One iteration of the loop after the last token: a left paren still on
\* the stack is a mismatched left paren, an operator is reduced.
Drain ==
    /\ pc = "eval"
    /\ current >= Len(tokens)
    /\ shy_operators_count > 0
    /\ LET p == pop_operator(shy_operators)
       IN  /\ shy_operators' = p.ops
           /\ IF p.err # NoError
              THEN Goes(p.err, "eval") /\ UNCHANGED shy_values
              ELSE IF p.token.type = TOKEN_LEFT_PAREN
              THEN /\ Goes(Error(ERROR_EVALUATION, "Mismatched left paren",
                                 "", p.token.start_at, p.token.start_at),
                           "eval")
                   /\ UNCHANGED shy_values
              ELSE LET r == PushEvaluated(p.token, shy_values)
                   IN  shy_values' = r.vals /\ Goes(r.err, "eval")
    /\ UNCHANGED <<source, scanner, tokens, current, token, result>>

ValuesLeft_AtLeastOne(n) == n < 1

\* if (shy_values_count != 1): the test before the return.
ValuesLeft(n) == n # 1

\* The stack of operators is empty: one value left is returned, anything
\* else is an error.
Return ==
    /\ pc = "eval"
    /\ current >= Len(tokens)
    /\ shy_operators_count = 0
    /\ IF ValuesLeft(shy_values_count)
       THEN /\ Goes(Error(ERROR_EVALUATION,
                     "Cannot evaluate the expression to the concrete value.",
                     "", -1, -1), "eval")
            /\ UNCHANGED <<shy_values, result>>
       ELSE LET p == pop_value(shy_values)
            IN  /\ shy_values' = p.vals
                /\ IF p.err # NoError
                   THEN Goes(p.err, "eval") /\ UNCHANGED result
                   ELSE result' = <<p.value>> /\ Goes(NoError, "done")
    /\ UNCHANGED <<source, scanner, tokens, current, token, shy_operators>>

-----------------------------------------------------------------------------
(* Inputs and specifications *)

\* The longest source text of Spec.
MaxLen == 4

\* The longest token sequence of SpecEval drawn from all token sequences.
MaxTokens == 4

\* The most numbers in a chain n1 op1 n2 ... nk of SpecEval.
MaxChain == 3

Chars == {"0", "1", "2", "+", "-", "*", "/", "(", ")", " ", ".", TAB, NL}

Sources == UNION {[1..n -> Chars] : n \in 0..MaxLen}

\* A token is drawn as <<type, literal>>; Number(k) is a number token of
\* value k.
Number(k) == <<TOKEN_NUMBER, DoubleOfInt(k)>>

Symbol(type) == <<type, Unset>>

\* The tokens of a sequence of drawn tokens, the i-th at offset i - 1.
Positioned(s) ==
    [i \in 1..Len(s) |->
        [type |-> s[i][1], literal |-> s[i][2],
         start_at |-> i - 1, end_at |-> i - 1]]

AnyToken ==
    {Symbol(t) : t \in TokenType \ {TOKEN_NUMBER}} \cup {Number(2), Number(3)}

AnySequences == UNION {[1..n -> AnyToken] : n \in 0..MaxTokens}

ChainNumbers == {Number(0), Number(2), Number(3), Number(8)}

\* n1 op1 n2 ... nk
Chain(ns, os) ==
    [i \in 1..(2 * Len(ns) - 1) |->
        IF i % 2 = 1 THEN ns[(i + 1) \div 2] ELSE Symbol(os[i \div 2])]

\* A chain with its numbers a..b wrapped in parentheses.
Wrapped(c, a, b) ==
    SubSeq(c, 1, 2 * a - 2) \o <<Symbol(TOKEN_LEFT_PAREN)>>
        \o SubSeq(c, 2 * a - 1, 2 * b - 1) \o <<Symbol(TOKEN_RIGHT_PAREN)>>
        \o SubSeq(c, 2 * b, Len(c))

\* One token more than a stack holds.
Overfull(tk) == [i \in 1..(STACK_SIZE_SHY_VALUES + 1) |-> tk]

\* The token lists eval_by_shunting_yard is run on: every sequence of at
\* most MaxTokens tokens, every chain of at most MaxChain numbers, bare or
\* with one run of its numbers in parentheses, and the two lists that
\* overfill a stack.
IsTokenInput(toks) ==
    \/ \E n \in 0..MaxTokens : \E s \in [1..n -> AnyToken] :
            toks = Positioned(s)
    \/ \E k \in 1..MaxChain :
         \E ns \in [1..k -> ChainNumbers], os \in [1..(k - 1) -> BinaryOperators] :
            \/ toks = Positioned(Chain(ns, os))
            \/ \E x \in 1..k : \E y \in x..k :
                    toks = Positioned(Wrapped(Chain(ns, os), x, y))
    \/ toks = Positioned(Overfull(Symbol(TOKEN_LEFT_PAREN)))
    \/ toks = Positioned(Overfull(Number(2)))

\* process_file on a file of text source.
Init ==
    /\ source \in Sources
    /\ scanner = [start |-> 0, current |-> 0]
    /\ tokens = <<>>
    /\ pc = "scan"
    /\ current = 0
    /\ token = NoToken
    /\ shy_operators = <<>>
    /\ shy_values = <<>>
    /\ result = <<>>
    /\ err = NoError

\* eval_by_shunting_yard on a token list.
InitEval ==
    /\ source = <<>>
    /\ scanner = [start |-> 0, current |-> 0]
    /\ IsTokenInput(tokens)
    /\ pc = "eval"
    /\ current = 0
    /\ token = NoToken
    /\ shy_operators = <<>>
    /\ shy_values = <<>>
    /\ result = <<>>
    /\ err = NoError

Next ==
    \/ ScanToken
    \/ ScanReturn
    \/ EvalToken
    \/ OperatorReduce
    \/ OperatorPush
    \/ RightParenReduce
    \/ RightParenClose
    \/ Drain
    \/ Return

NextEval ==
    \/ EvalToken
    \/ OperatorReduce
    \/ OperatorPush
    \/ RightParenReduce
    \/ RightParenClose
    \/ Drain
    \/ Return

Spec == Init /\ [][Next]_vars

SpecEval == InitEval /\ [][NextEval]_vars

-----------------------------------------------------------------------------
(* What the claims speak of, stated on the input and not on the scanner's  *)
(* or the evaluator's own steps.                                           *)

Terminated == pc = "done" \/ pc = "exit"

\* The source line: the text before the first newline.
Line ==
    IF \E i \in 1..Len(source) : source[i] = NL
    THEN SubSeq(source, 1,
                (CHOOSE i \in 1..Len(source) :
                    source[i] = NL /\ \A j \in 1..(i - 1) : source[j] # NL) - 1)
    ELSE source

OperatorChars == {"+", "-", "*", "/"}

\* digits, or digits '.' digits
IsNumberText(t) ==
    LET k == DigitRun(t, 1)
    IN  /\ k >= 1
        /\ \/ k = Len(t)
           \/ /\ k + 1 < Len(t)
              /\ t[k + 1] = "."
              /\ DigitRun(t, k + 2) = Len(t) - k - 1

\* The decimal value of a text that IsNumberText.
DecimalValue(t) ==
    LET digits == SelectSeq(t, IS_DIGIT)
        k == DigitRun(t, 1)
    IN  Double(1, DecimalOf(digits), Pow10(Len(digits) - k))

RECURSIVE Trimmed(_)
\* t without its leading and trailing spaces.
Trimmed(t) ==
    IF t = <<>> THEN t
    ELSE IF Head(t) = " " THEN Trimmed(Tail(t))
    ELSE IF t[Len(t)] = " " THEN Trimmed(SubSeq(t, 1, Len(t) - 1))
    ELSE t

RECURSIVE IsExpression(_)
\* E ::= Number | '-' E | E op E | '(' E ')', spaces allowed between tokens.
IsExpression(s) ==
    LET t == Trimmed(s)
    IN  /\ t # <<>>
        /\ \/ IsNumberText(t)
           \/ t[1] = "-" /\ IsExpression(Tail(t))
           \/ /\ Len(t) >= 3
              /\ t[1] = "(" /\ t[Len(t)] = ")"
              /\ IsExpression(SubSeq(t, 2, Len(t) - 1))
           \/ \E k \in 2..(Len(t) - 1) :
                /\ t[k] \in OperatorChars
                /\ IsExpression(SubSeq(t, 1, k - 1))
                /\ IsExpression(SubSeq(t, k + 1, Len(t)))

RECURSIVE IsLiteralDot(_)
\* Line[i] is the '.' of a numeric literal: digits before it that begin a
\* literal, a digit after it.
IsLiteralDot(i) ==
    /\ Line[i] = "."
    /\ i > 1 /\ i < Len(Line)
    /\ IS_DIGIT(Line[i - 1]) /\ IS_DIGIT(Line[i + 1])
    /\ LET first == CHOOSE f \in 1..(i - 1) :
                        /\ \A j \in f..(i - 1) : IS_DIGIT(Line[j])
                        /\ f = 1 \/ ~IS_DIGIT(Line[f - 1])
       IN  ~(first > 1 /\ Line[first - 1] = "." /\ IsLiteralDot(first - 1))

\* Line[i] is a character the scanner has no token for.
IsUnexpected(i) ==
    /\ ~IS_DIGIT(Line[i])
    /\ Line[i] \notin OperatorChars \cup {"(", ")", " "}
    /\ ~IsLiteralDot(i)

Unexpected == {i \in 1..Len(Line) : IsUnexpected(i)}

Min(S) == CHOOSE x \in S : \A y \in S : x <= y

Max(S) == CHOOSE x \in S : \A y \in S : x >= y

\* The last character of the literal that starts at Line[i].
LiteralEnd(i) ==
    LET k == DigitRun(Line, i)
    IN  IF i + k < Len(Line) /\ Line[i + k] = "." /\ IS_DIGIT(Line[i + k + 1])
        THEN i + k + DigitRun(Line, i + k + 1)
        ELSE i + k - 1

\* The character a one-character token is scanned from.
CharOf(type) ==
    CASE type = TOKEN_PLUS -> "+"
      [] type = TOKEN_STAR -> "*"
      [] type = TOKEN_SLASH -> "/"
      [] type = TOKEN_LEFT_PAREN -> "("
      [] type = TOKEN_RIGHT_PAREN -> ")"
      [] OTHER -> "-"

\* The index in Line of the last character before Line[i] that is no
\* space, 0 when there is none.
PreviousNonSpace(i) ==
    Max({0} \cup {j \in 1..(i - 1) : Line[j] # " "})

Count(toks, type, i) == Cardinality({j \in 1..i : toks[j].type = type})

\* The right parens with no left paren open before them.
UnmatchedRight(toks) ==
    {i \in 1..Len(toks) :
        /\ toks[i].type = TOKEN_RIGHT_PAREN
        /\ Count(toks, TOKEN_RIGHT_PAREN, i) > Count(toks, TOKEN_LEFT_PAREN, i)}

Unbalanced(toks) ==
    \/ Count(toks, TOKEN_LEFT_PAREN, Len(toks))
            > Count(toks, TOKEN_RIGHT_PAREN, Len(toks))
    \/ UnmatchedRight(toks) # {}

\* The left parens that no later right paren closes.
Unclosed(toks) ==
    {l \in 1..Len(toks) :
        /\ toks[l].type = TOKEN_LEFT_PAREN
        /\ \A r \in (l + 1)..Len(toks) :
              Count(toks, TOKEN_RIGHT_PAREN, r) - Count(toks, TOKEN_RIGHT_PAREN, l)
                <= Count(toks, TOKEN_LEFT_PAREN, r) - Count(toks, TOKEN_LEFT_PAREN, l)}

\* n1 op1 n2 ... nk
IsChain(toks) ==
    /\ Len(toks) % 2 = 1
    /\ \A i \in 1..Len(toks) :
          IF i % 2 = 1 THEN toks[i].type = TOKEN_NUMBER
          ELSE toks[i].type \in BinaryOperators

RECURSIVE TermValue(_)
\* A chain of * and / only, applied left to right.
TermValue(c) ==
    IF Len(c) = 1 THEN c[1].literal
    ELSE Apply(c[Len(c) - 1].type, TermValue(SubSeq(c, 1, Len(c) - 2)),
               c[Len(c)].literal)

RECURSIVE ChainValue(_)
\* A chain: its terms, the maximal runs of * and /, joined left to right
\* by + and -.
ChainValue(c) ==
    LET sums == {k \in 1..Len(c) : c[k].type \in {TOKEN_PLUS, TOKEN_MINUS}}
    IN  IF sums = {} THEN TermValue(c)
        ELSE LET k == Max(sums)
             IN  Apply(c[k].type, ChainValue(SubSeq(c, 1, k - 1)),
                       TermValue(SubSeq(c, k + 1, Len(c))))

\* A chain with one run of its numbers in parentheses, the parens at l, r.
IsWrappedChain(toks, l, r) ==
    /\ 1 <= l /\ l < r /\ r <= Len(toks)
    /\ toks[l].type = TOKEN_LEFT_PAREN
    /\ toks[r].type = TOKEN_RIGHT_PAREN
    /\ IsChain(SubSeq(toks, l + 1, r - 1))
    /\ IsChain(SubSeq(toks, 1, l - 1) \o <<toks[l + 1]>>
                    \o SubSeq(toks, r + 1, Len(toks)))

\* Its value: the parenthesised chain first, as one number of the rest.
WrappedValue(toks, l, r) ==
    ChainValue(SubSeq(toks, 1, l - 1)
               \o <<[toks[l + 1] EXCEPT
                        !.literal = ChainValue(SubSeq(toks, l + 1, r - 1))]>>
               \o SubSeq(toks, r + 1, Len(toks)))

-----------------------------------------------------------------------------
(* The claims *)

\* C1: when the source line is a well-formed expression (Number, '-' E,
\* E op E, '(' E ')'), the program ends by returning exactly one result,
\* with the operator stack and the value stack empty, and not by an error.
C1_WellFormedEvaluates ==
    (Terminated /\ IsExpression(Line)) =>
        /\ pc = "done"
        /\ Len(result) = 1
        /\ shy_operators = <<>>
        /\ shy_values = <<>>

\* C2: the literal of every Number token is the decimal value of the whole
\* text the scanner consumed for it.
C2_LiteralIsDecimalValue ==
    \A i \in 1..Len(tokens) :
        tokens[i].type = TOKEN_NUMBER =>
            tokens[i].literal =
                DecimalValue(SubSeq(source, tokens[i].start_at + 1,
                                    tokens[i].end_at + 1))

\* C3: a token sequence with two adjacent Number tokens ends in an
\* Evaluation error and returns no result.
C3_AdjacentNumbersFail ==
    (/\ Terminated
     /\ \E i \in 1..(Len(tokens) - 1) :
            tokens[i].type = TOKEN_NUMBER /\ tokens[i + 1].type = TOKEN_NUMBER)
        => (pc = "exit" /\ err.code = ERROR_EVALUATION /\ result = <<>>)

\* C4: a chain n1 op1 n2 ... nk evaluates to the value with * and / binding
\* tighter than + and - and equal precedence applied left to right; a run
\* of the chain in parentheses is evaluated first.
C4_ChainValue ==
    Terminated =>
        /\ IsChain(tokens) =>
              pc = "done" /\ result = <<ChainValue(tokens)>>
        /\ \A l \in 1..Len(tokens) :
              tokens[l].type = TOKEN_LEFT_PAREN =>
                 \A r \in (l + 1)..Len(tokens) :
                    IsWrappedChain(tokens, l, r) =>
                        pc = "done" /\ result = <<WrappedValue(tokens, l, r)>>

\* C4: 8 - 3 - 2 has returned 3.
C4_Witness ==
    /\ pc = "done"
    /\ Len(tokens) = 5
    /\ tokens[1].literal = DoubleOfInt(8)
    /\ tokens[2].type = TOKEN_MINUS
    /\ tokens[3].literal = DoubleOfInt(3)
    /\ tokens[4].type = TOKEN_MINUS
    /\ tokens[5].literal = DoubleOfInt(2)
    /\ result = <<DoubleOfInt(3)>>

\* C5: every '-' scanned so far has a token, which is UnaryMinus exactly
\* when it is the first token or follows a token that is neither Number
\* nor RightParen, that is when the last character before it that is no
\* space is neither a digit nor ')'; it is Subtract otherwise.
C5_MinusClassified ==
    /\ \A p \in 1..Len(Line) :
          (Line[p] = "-" /\ p <= scanner.current) =>
              \E i \in 1..Len(tokens) :
                  /\ tokens[i].start_at = p - 1
                  /\ tokens[i].type \in {TOKEN_UMINUS, TOKEN_MINUS}
    /\ \A i \in 1..Len(tokens) :
          tokens[i].type \in {TOKEN_UMINUS, TOKEN_MINUS} =>
              LET p == tokens[i].start_at + 1
                  q == PreviousNonSpace(p)
              IN  /\ Line[p] = "-"
                  /\ tokens[i].type = TOKEN_UMINUS <=>
                        (i = 1 \/ tokens[i - 1].type
                                    \notin {TOKEN_NUMBER, TOKEN_RIGHT_PAREN})
                  /\ tokens[i].type = TOKEN_UMINUS <=>
                        (q = 0 \/ ~(IS_DIGIT(Line[q]) \/ Line[q] = ")"))

\* C5: ")- -" has been scanned: a Subtract after ')', then a UnaryMinus
\* after the Subtract and a space.
C5_Witness ==
    /\ Len(tokens) = 3
    /\ tokens[1].type = TOKEN_RIGHT_PAREN
    /\ tokens[2].type = TOKEN_MINUS /\ tokens[2].start_at = 1
    /\ tokens[3].type = TOKEN_UMINUS /\ tokens[3].start_at = 3

\* C6, in every final state: a token sequence with unbalanced parentheses
\* ends in an Evaluation error without a result; 'mismatched right paren'
\* names the first right paren with no left paren open, 'mismatched left
\* paren' the last left paren never closed.
C6_UnbalancedFails ==
    (Terminated /\ Unbalanced(tokens)) =>
        /\ pc = "exit"
        /\ err.code = ERROR_EVALUATION
        /\ result = <<>>
        /\ err.msg = "Mismatched right paren" =>
              /\ UnmatchedRight(tokens) # {}
              /\ err.pos = tokens[Min(UnmatchedRight(tokens))].start_at
        /\ err.msg = "Mismatched left paren" =>
              /\ UnmatchedRight(tokens) = {}
              /\ err.pos = tokens[Max(Unclosed(tokens))].start_at

\* C6, step by step: when the operator stack is empty at a right paren the
\* program exits with 'mismatched right paren' at that paren, and when a
\* left paren is on top in the final drain it exits with 'mismatched left
\* paren' at that paren.
C6_MismatchStep ==
    /\ (pc = "right_paren" /\ shy_operators = <<>>) =>
          /\ pc' = "exit"
          /\ err'.code = ERROR_EVALUATION
          /\ err'.msg = "Mismatched right paren"
          /\ err'.pos = token.start_at
    /\ (/\ pc = "eval" /\ current >= Len(tokens) /\ shy_operators # <<>>
        /\ shy_operators[Len(shy_operators)].type = TOKEN_LEFT_PAREN) =>
          /\ pc' = "exit"
          /\ err'.code = ERROR_EVALUATION
          /\ err'.msg = "Mismatched left paren"
          /\ err'.pos = shy_operators[Len(shy_operators)].start_at

\* C6: unbalanced parentheses never return a result and are reported as
\* the mismatched paren they are.
C6_Mismatched == []C6_UnbalancedFails /\ [][C6_MismatchStep]_vars

\* C6: "( 2 ) )" has ended with 'mismatched right paren' at offset 3.
C6_Witness ==
    /\ pc = "exit"
    /\ Len(tokens) = 4
    /\ tokens[1].type = TOKEN_LEFT_PAREN
    /\ Unbalanced(tokens)
    /\ err.msg = "Mismatched right paren"
    /\ err.pos = 3

\* C7: when the line holds a character the scanner has no token for, the
\* program exits with a Parsing error naming the first such character and
\* its offset, and the evaluator never starts: no stack is touched and no
\* result is produced.
C7_UnexpectedCharacter ==
    Unexpected # {} =>
        /\ pc \in {"scan", "exit"}
        /\ current = 0 /\ shy_operators = <<>> /\ shy_values = <<>>
        /\ result = <<>>
        /\ pc = "scan" => scanner.current < Min(Unexpected)
        /\ pc = "exit" =>
              /\ err.code = ERROR_PARSING
              /\ err.char = Line[Min(Unexpected)]
              /\ err.pos = Min(Unexpected) - 1

\* C7: a line with a tab at offset 2, after two tokens, has ended with the
\* Parsing error for it.
C7_Witness ==
    /\ pc = "exit"
    /\ Len(tokens) = 2
    /\ err.code = ERROR_PARSING
    /\ err.char = TAB
    /\ err.pos = 2

\* C8: every token's span lies in the line with start_at <= end_at; an
\* operator or paren token spans the one character it was scanned from; a
\* Number token spans exactly its literal, a maximal run of digits with an
\* optional '.' and run of digits; tokens are in source order, each
\* starting after the previous one ends.
C8_Spans ==
    \A i \in 1..Len(tokens) :
        LET t == tokens[i]
        IN  /\ 0 <= t.start_at
            /\ t.start_at <= t.end_at
            /\ t.end_at < Len(Line)
            /\ i > 1 => t.start_at > tokens[i - 1].end_at
            /\ t.type # TOKEN_NUMBER =>
                  /\ t.end_at = t.start_at
                  /\ Line[t.start_at + 1] = CharOf(t.type)
            /\ t.type = TOKEN_NUMBER =>
                  /\ IsNumberText(SubSeq(Line, t.start_at + 1, t.end_at + 1))
                  /\ t.end_at + 1 = LiteralEnd(t.start_at + 1)
                  /\ t.start_at = 0 \/ ~IS_DIGIT(Line[t.start_at])

\* C8: " 1.2" has been scanned into one Number token spanning offsets 1..3.
C8_Witness ==
    /\ pc = "done"
    /\ Len(tokens) = 1
    /\ tokens[1].type = TOKEN_NUMBER
    /\ tokens[1].start_at = 1
    /\ tokens[1].end_at = 3

\* C9: the operator stack holds only UnaryMinus, Multiply, Divide, Add,
\* Subtract and LeftParen tokens, and evaluate never reports an invalid
\* token type.
C9_OperatorStackTypes ==
    /\ \A i \in 1..Len(shy_operators) :
          shy_operators[i].type
              \in BinaryOperators \cup {TOKEN_UMINUS, TOKEN_LEFT_PAREN}
    /\ err.msg # "Invalid token type when an operator expected."

\* C9: with a left paren and a UnaryMinus on the operator stack and a
\* value on the value stack, the evaluator is about to reduce.
C9_Witness ==
    /\ pc = "operator"
    /\ Len(shy_operators) = 2
    /\ shy_operators[1].type = TOKEN_LEFT_PAREN
    /\ shy_operators[2].type = TOKEN_UMINUS
    /\ Len(shy_values) = 1
    /\ WhileOperator(shy_operators, token)

\* C10: both stack counts stay within 0..1024; a push onto a full stack
\* and a pop from an empty one end the evaluation with an Evaluation
\* error: more than 1024 pending left parens or numbers overflow their
\* stack, and a binary operator with fewer than two operands finds the
\* value stack empty.
C10_StackBounds ==
    /\ 0 <= shy_operators_count
    /\ shy_operators_count <= STACK_SIZE_SHY_OPERATORS
    /\ 0 <= shy_values_count
    /\ shy_values_count <= STACK_SIZE_SHY_VALUES
    /\ err.msg \in {"Operators stack is overflowed.",
                    "Values stack is overflowed.",
                    "Operators stack is empty.",
                    "Values stack is empty."} =>
            pc = "exit" /\ err.code = ERROR_EVALUATION /\ result = <<>>
    /\ (Terminated /\ Len(tokens) > STACK_SIZE_SHY_OPERATORS
            /\ \A i \in 1..Len(tokens) : tokens[i].type = TOKEN_LEFT_PAREN) =>
          /\ err.msg = "Operators stack is overflowed."
          /\ current = STACK_SIZE_SHY_OPERATORS + 1
    /\ (Terminated /\ Len(tokens) > STACK_SIZE_SHY_VALUES
            /\ \A i \in 1..Len(tokens) : tokens[i].type = TOKEN_NUMBER) =>
          /\ err.msg = "Values stack is overflowed."
          /\ current = STACK_SIZE_SHY_VALUES + 1
    /\ (Terminated /\ Len(tokens) \in {1, 2}
            /\ tokens[Len(tokens)].type \in BinaryOperators
            /\ tokens[1].type \in BinaryOperators \cup {TOKEN_NUMBER}) =>
          err.msg = "Values stack is empty."

\* C10: the 1025th pending left paren has found the operator stack full.
C10_Witness ==
    /\ pc = "exit"
    /\ err.msg = "Operators stack is overflowed."
    /\ shy_operators_count = STACK_SIZE_SHY_OPERATORS
    /\ current = STACK_SIZE_SHY_OPERATORS + 1

====
